---- MODULE Spec2Model ----
(***************************************************************************)
(* Model of lshash/storage.py: the storage factory `storage` and the three *)
(* adapters InMemoryStorage, RedisStorage and CassandraStorage, together   *)
(* with the primitives of the redis server and of the CQL table `lsh` that *)
(* the adapters call.                                                      *)
(***************************************************************************)
EXTENDS Integers, Sequences, FiniteSets, TLC

VARIABLES
    redis,      \* module global `redis`: TRUE when `import redis` succeeded
    cql,        \* module global `cql`: TRUE when `import cql` succeeded
    schema,     \* primary key of table lsh(key, val), known once a session uses it
    config,     \* the caller's storage_config, as the last storage() call left it
    created,    \* outcome of the last storage() call
    handles,    \* the adapter objects, one per slot
    indexOf,    \* history: the index each slot's handle was created with
    mem,        \* InMemoryStorage.storage of each slot: the dict
    redisSrv,   \* the redis server: one key space per logical database
    cassSrv,    \* the rows of table lsh in the cluster's keyspace
    last,       \* the last adapter call and its outcome
    appended,   \* history: values appended without error to a key since set_val
                \* was last called on it, per slot
    written,    \* history: keys written without error, per slot
    setKeys,    \* history: keys on which set_val was called, per slot
    pc          \* position of each concurrent caller

vars == <<redis, cql, schema, config, created, handles, indexOf, mem, redisSrv, cassSrv,
          last, appended, written, setKeys, pc>>

----------------------------------------------------------------------------
\* Bounds of the model.

\* payloads are numbered 1..MaxVal, each as a str and as an int
MaxVal == 1
\* the strings given to set_val are numbered 1..MaxStr
MaxStr == 2
\* at most MaxLen append_val calls succeed per slot and key
MaxLen == 2
\* the caller-supplied index is one of 0..MaxIndex
MaxIndex == 1
\* number of concurrent callers of the remote-kv append
NCallers == 3

Slots == {1, 2}
Callers == 1..NCallers
Keys == {"h1", "h2"}
NoKey == "-"
Indexes == 0..MaxIndex

----------------------------------------------------------------------------
\* Python values.  A payload is a str or an int; encodings produce str or
\* pickled values.  The numeral n stands for the text of payload n.

NoVal == [type |-> "none", v |-> 0]
Vals == [type : {"str", "int"}, v : 1..MaxVal]
\* set_val: "note that the `val` must be a string"
SetVals == [type : {"str"}, v : 1..MaxStr]

\* redis-py sends every value to the server as its str() text
RedisEncode(x) == [type |-> "str", v |-> x.v]

\* pickle.dumps(csr_matrix(array(val))): defined for numeric payloads only
Picklable(x) == x.type = "int"
Pickle(x) == [type |-> "pickle", v |-> x.v]

\* names bound at module level by the import statements
ModuleGlobals == {"ujson", "pickle", "csr_matrix", "array", "logging", "redis", "cql"}

----------------------------------------------------------------------------
\* What a call returns.  kind: "None", "val" (one value), "list" (a list
\* of values), "keys" (a list of keys), "row" (one result row), "rows"
\* (a list of one-column key rows, n of them).

Ret(kind, val, items, ks, n) ==
    [kind |-> kind, val |-> val, items |-> items, keys |-> ks, n |-> n]
RetNone == Ret("None", NoVal, <<>>, {}, 0)
RetVal(x) == Ret("val", x, <<>>, {}, 0)
RetList(s) == Ret("list", NoVal, s, {}, 0)
RetKeys(ks) == Ret("keys", NoVal, <<>>, ks, Cardinality(ks))

Out(err, ret) == [err |-> err, ret |-> ret]
Ok(ret) == Out("none", ret)
Raise(e) == Out(e, RetNone)

\* the values of a sequence
Range(s) == {s[i] : i \in 1..Len(s)}

----------------------------------------------------------------------------
\* A dict or redis entry: absent, one scalar, or one list.

Absent == [kind |-> "absent", val |-> NoVal, items |-> <<>>]
Scalar(x) == [kind |-> "scalar", val |-> x, items |-> <<>>]
List(s) == [kind |-> "list", val |-> NoVal, items |-> s]
EmptyDict == [k \in Keys |-> Absent]
Present(d) == {k \in Keys : d[k].kind # "absent"}

----------------------------------------------------------------------------
\* InMemoryStorage: each operator gives the outcome of the call and the
\* dict after it.

InMemoryStorage_keys(d) == Ok(RetKeys(Present(d)))

\* set_val written as self.storage.setdefault(key, val)
InMemoryStorage_set_val_setdefault(d, key, val) ==
    IF d[key].kind = "absent" THEN [d EXCEPT ![key] = Scalar(val)] ELSE d

InMemoryStorage_set_val(d, key, val) == [d EXCEPT ![key] = Scalar(val)]

InMemoryStorage_get_val(d, key) ==
    CASE d[key].kind = "absent" -> Raise("KeyError")
      [] d[key].kind = "scalar" -> Ok(RetVal(d[key].val))
      [] OTHER -> Ok(RetList(d[key].items))

\* self.storage.setdefault(key, []).append(val); a str or int has no append
InMemoryStorage_append_val_out(d, key) ==
    IF d[key].kind = "scalar" THEN Raise("AttributeError") ELSE Ok(RetNone)

\* append_val written as self.storage.get(key, []).append(val): the list
\* created for an absent key is not kept
InMemoryStorage_append_val_get(d, key, val) ==
    CASE d[key].kind = "list" -> [d EXCEPT ![key] = List(Append(d[key].items, val))]
      [] OTHER -> d

\* append_val written as insert(0, val)
InMemoryStorage_append_val_front(d, key, val) ==
    CASE d[key].kind = "absent" -> [d EXCEPT ![key] = List(<<val>>)]
      [] d[key].kind = "list" -> [d EXCEPT ![key] = List(<<val>> \o d[key].items)]
      [] OTHER -> d

InMemoryStorage_append_val(d, key, val) ==
    CASE d[key].kind = "absent" -> [d EXCEPT ![key] = List(<<val>>)]
      [] d[key].kind = "list" -> [d EXCEPT ![key] = List(Append(d[key].items, val))]
      [] OTHER -> d

\* get_list written as self.storage[key]
InMemoryStorage_get_list_subscript(d, key) ==
    CASE d[key].kind = "absent" -> Raise("KeyError")
      [] d[key].kind = "list" -> Ok(RetList(d[key].items))
      [] OTHER -> Ok(RetVal(d[key].val))

InMemoryStorage_get_list(d, key) ==
    CASE d[key].kind = "absent" -> Ok(RetList(<<>>))
      [] d[key].kind = "list" -> Ok(RetList(d[key].items))
      [] OTHER -> Ok(RetVal(d[key].val))

----------------------------------------------------------------------------
\* RedisStorage, on one logical database of the server.  The server's
\* commands are typed: GET, RPUSH and LRANGE answer WRONGTYPE (redis-py's
\* ResponseError) on an entry of the other kind; SET replaces any entry.

json_dumps(x) ==
    [type |-> IF x.type = "str" THEN "json_str" ELSE "json_int", v |-> x.v]

RedisStorage_keys(db) == Ok(RetKeys(Present(db)))

RedisStorage_set_val(db, key, val) == [db EXCEPT ![key] = Scalar(RedisEncode(val))]

RedisStorage_get_val(db, key) ==
    CASE db[key].kind = "absent" -> Ok(RetNone)
      [] db[key].kind = "scalar" -> Ok(RetVal(db[key].val))
      [] OTHER -> Raise("ResponseError")

\* self.storage.rpush(key, json.dumps(val)): the argument is evaluated first,
\* and the name json is looked up among the module's globals
RedisStorage_append_val_out(db, key) ==
    CASE "json" \notin ModuleGlobals -> Raise("NameError")
      [] db[key].kind = "scalar" -> Raise("ResponseError")
      [] OTHER -> Ok(RetNone)

RedisStorage_append_val(db, key, val) ==
    CASE "json" \notin ModuleGlobals -> db
      [] db[key].kind = "absent" -> [db EXCEPT ![key] = List(<<json_dumps(val)>>)]
      [] db[key].kind = "list" ->
            [db EXCEPT ![key] = List(Append(db[key].items, json_dumps(val)))]
      [] OTHER -> db

RedisStorage_get_list(db, key) ==
    CASE db[key].kind = "absent" -> Ok(RetList(<<>>))
      [] db[key].kind = "list" -> Ok(RetList(db[key].items))
      [] OTHER -> Raise("ResponseError")

----------------------------------------------------------------------------
\* CassandraStorage, on the rows of table lsh.  The repository does not
\* create the table: its primary key is either (key), where INSERT replaces
\* the row of the key, or (key, val), where INSERT adds a row and the rows
\* of a key are kept in the order of val.

Schemas == {"key", "key_val"}
NoSchema == "unknown"
Row(key, val) == [key |-> key, val |-> val]

CassInsert(sch, rows, key, val) ==
    IF sch = "key"
    THEN {r \in rows : r.key # key} \cup {Row(key, val)}
    ELSE rows \cup {Row(key, val)}

TypeRank(t) == CASE t = "str" -> 0 [] t = "int" -> 1 [] OTHER -> 2
ValRank(x) == TypeRank(x.type) * (MaxVal + 1) + x.v

RECURSIVE InOrder(_)
InOrder(S) ==
    IF S = {} THEN <<>>
    ELSE LET m == CHOOSE x \in S : \A y \in S : ValRank(x) <= ValRank(y)
         IN <<m>> \o InOrder(S \ {m})

\* the val column of the rows WHERE key=:key, in result order
CassSelect(rows, key) == InOrder({r.val : r \in {q \in rows : q.key = key}})

\* SELECT key FROM lsh; fetchall(): one row per row of the table
CassandraStorage_keys(rows) == Ok(Ret("rows", NoVal, <<>>, {r.key : r \in rows}, Cardinality(rows)))

CassandraStorage_set_val(sch, rows, key, val) == CassInsert(sch, rows, key, val)

\* SELECT val ... LIMIT 1; fetchone(): the first row, or None
CassandraStorage_get_val(rows, key) ==
    IF CassSelect(rows, key) = <<>>
    THEN Ok(RetNone)
    ELSE Ok(Ret("row", Head(CassSelect(rows, key)), <<>>, {}, 1))

CassandraStorage_append_val_out(val) == IF Picklable(val) THEN Ok(RetNone) ELSE Raise("TypeError")

CassandraStorage_append_val(sch, rows, key, val) ==
    IF Picklable(val) THEN CassInsert(sch, rows, key, Pickle(val)) ELSE rows

CassandraStorage_get_list(rows, key) == Ok(RetList(CassSelect(rows, key)))

----------------------------------------------------------------------------
\* The configuration map given to storage(): the top-level names present
\* and the parameter sub-maps of the two networked backends.  An optional
\* field is <<>> when absent and <<x>> when it holds x; host and port are
\* always given.

BackendNames == {"dict", "redis", "cassandra"}
ConfigNames == BackendNames \cup {"mongo"}
Keyspaces == {"lsh"}
Params(db, keyspace) == [db |-> db, keyspace |-> keyspace]
Configs ==
    [names : SUBSET ConfigNames,
     redis : {Params(<<>>, <<>>)},
     cassandra : {Params(<<>>, ks) : ks \in {<<>>, <<"lsh">>, <<"nosuch">>}}]
\* configurations naming one backend, with a keyspace the cluster has
SingleConfigs ==
    {c \in Configs : /\ \E b \in BackendNames : c.names = {b}
                     /\ c.cassandra.keyspace = <<"lsh">>}
NetworkConfigs == {c \in SingleConfigs : "dict" \notin c.names}
RedisConfigs == {c \in SingleConfigs : "redis" \in c.names}
\* configurations naming one backend, with any keyspace for the column store
OneBackendConfigs == SingleConfigs \cup {c \in Configs : c.names = {"cassandra"}}
EmptyConfig == [names |-> {}, redis |-> Params(<<>>, <<>>), cassandra |-> Params(<<>>, <<>>)]

\* the keyword names of a parameter sub-map
ParamNames(p) ==
    {"host", "port"} \cup (IF p.db # <<>> THEN {"db"} ELSE {})
                     \cup (IF p.keyspace # <<>> THEN {"keyspace"} ELSE {})

\* An adapter object: its state, self.name, the client constructor that was
\* called with the names of the arguments it received, and the database
\* number that client was given.
Handle(state, name, client, args, db, err) ==
    [state |-> state, name |-> name, client |-> client, args |-> args,
     db |-> db, err |-> err]
NoHandle == Handle("Uninitialized", "none", "none", {}, <<>>, "none")

InMemoryStorage_init == Handle("Open", "dict", "dict", {}, <<>>, "none")

\* the constructor without its `if not redis` check, the client being built
\* on first use
RedisStorage_init_deferred(hasRedis, p) ==
    Handle("Open", "redis", "none", ParamNames(p), p.db, "none")

RedisStorage_init(hasRedis, p) ==
    IF ~hasRedis
    THEN Handle("Failed", "none", "none", {}, <<>>, "ImportError")
    ELSE Handle("Open", "redis", "StrictRedis", ParamNames(p), p.db, "none")

\* cql.connect(config["host"], config["port"], cql_version='3.0.0')
ConnectArgs == {"host", "port", "cql_version"}

\* the constructor without its USE statement
CassandraStorage_init_no_use(hasCql, p) ==
    IF ~hasCql
    THEN Handle("Failed", "none", "none", {}, <<>>, "ImportError")
    ELSE Handle("Open", "cassandra", "cql.connect", ConnectArgs, <<>>, "none")

CassandraStorage_init(hasCql, p) ==
    CASE ~hasCql -> Handle("Failed", "none", "none", {}, <<>>, "ImportError")
      [] p.keyspace = <<>> ->
            Handle("Failed", "cassandra", "cql.connect", ConnectArgs, <<>>, "KeyError")
      [] p.keyspace # <<>> /\ p.keyspace[1] \notin Keyspaces ->
            Handle("Failed", "cassandra", "cql.connect", ConnectArgs, <<>>,
                   "ProgrammingError")
      [] OTHER -> Handle("Open", "cassandra", "cql.connect", ConnectArgs, <<>>, "none")

\* storage(): the branch taken, the configuration after the call and the
\* adapter constructed.
StorageBranch(cfg) ==
    CASE "dict" \in cfg.names -> "dict"
      [] "redis" \in cfg.names -> "redis"
      [] "cassandra" \in cfg.names -> "cassandra"
      [] OTHER -> "none"

StorageConfig(cfg, index) ==
    CASE StorageBranch(cfg) = "redis" -> [cfg EXCEPT !.redis.db = <<index>>]
      [] StorageBranch(cfg) = "cassandra" -> [cfg EXCEPT !.cassandra.db = <<index>>]
      [] OTHER -> cfg

StorageAdapter(hasRedis, hasCql, cfg, index) ==
    CASE StorageBranch(cfg) = "dict" -> InMemoryStorage_init
      [] StorageBranch(cfg) = "redis" -> RedisStorage_init(hasRedis, StorageConfig(cfg, index).redis)
      [] StorageBranch(cfg) = "cassandra" ->
            CassandraStorage_init(hasCql, StorageConfig(cfg, index).cassandra)
      [] OTHER -> NoHandle

StorageErr(hasRedis, hasCql, cfg, index) ==
    IF StorageBranch(cfg) = "none"
    THEN "ValueError"
    ELSE StorageAdapter(hasRedis, hasCql, cfg, index).err

NoCreated == [called |-> FALSE, given |-> EmptyConfig, index |-> 0, slot |-> 0,
              err |-> "none"]

----------------------------------------------------------------------------
\* Calls and their records.

Call(h, op, key, val, out) ==
    [h |-> h, op |-> op, key |-> key, val |-> val, err |-> out.err, ret |-> out.ret]
NoCall == Call(0, "none", NoKey, NoVal, Ok(RetNone))

IsOpen(h) == handles[h].state = "Open"
Name(h) == handles[h].name
\* the logical database a redis handle's client targets (0 when none is given)
Db(h) == IF handles[h].db = <<>> THEN 0 ELSE handles[h].db[1]

Record(h, op, key, val, out) == last' = Call(h, op, key, val, out)

KeysOut(h) ==
    CASE Name(h) = "dict" -> InMemoryStorage_keys(mem[h])
      [] Name(h) = "redis" -> RedisStorage_keys(redisSrv[Db(h)])
      [] OTHER -> CassandraStorage_keys(cassSrv)

GetValOut(h, key) ==
    CASE Name(h) = "dict" -> InMemoryStorage_get_val(mem[h], key)
      [] Name(h) = "redis" -> RedisStorage_get_val(redisSrv[Db(h)], key)
      [] OTHER -> CassandraStorage_get_val(cassSrv, key)

AppendValOut(h, key, val) ==
    CASE Name(h) = "dict" -> InMemoryStorage_append_val_out(mem[h], key)
      [] Name(h) = "redis" -> RedisStorage_append_val_out(redisSrv[Db(h)], key)
      [] OTHER -> CassandraStorage_append_val_out(val)

GetListOut(h, key) ==
    CASE Name(h) = "dict" -> InMemoryStorage_get_list(mem[h], key)
      [] Name(h) = "redis" -> RedisStorage_get_list(redisSrv[Db(h)], key)
      [] OTHER -> CassandraStorage_get_list(cassSrv, key)

----------------------------------------------------------------------------
\* Initial state: the module has been imported, nothing has been created.

Imported ==
    /\ schema = NoSchema
    /\ config = EmptyConfig
    /\ created = NoCreated
    /\ handles = [h \in Slots |-> NoHandle]
    /\ indexOf = [h \in Slots |-> <<>>]
    /\ mem = [h \in Slots |-> EmptyDict]
    /\ redisSrv = [i \in Indexes |-> EmptyDict]
    /\ cassSrv = {}
    /\ last = NoCall
    /\ appended = [h \in Slots |-> [k \in Keys |-> <<>>]]
    /\ written = [h \in Slots |-> {}]
    /\ setKeys = [h \in Slots |-> {}]
    /\ pc = [c \in Callers |-> "idle"]

\* either client library may be missing from the deployment
InitAny == redis \in BOOLEAN /\ cql \in BOOLEAN /\ Imported

\* both client libraries are installed
Init == redis = TRUE /\ cql = TRUE /\ Imported

stores == <<mem, redisSrv, cassSrv>>
history == <<appended, written, setKeys>>
libs == <<redis, cql>>

\* storage(storage_config, index), its result kept in slot h
storage(h, cfg, index) ==
    /\ handles[h].state = "Uninitialized"
    /\ config' = StorageConfig(cfg, index)
    /\ handles' = [handles EXCEPT ![h] = StorageAdapter(redis, cql, cfg, index)]
    /\ indexOf' = IF StorageBranch(cfg) = "none" THEN indexOf
                  ELSE [indexOf EXCEPT ![h] = <<index>>]
    /\ created' = [called |-> TRUE, given |-> cfg, index |-> index,
                   slot |-> IF StorageBranch(cfg) = "none" THEN 0 ELSE h,
                   err |-> StorageErr(redis, cql, cfg, index)]
    /\ schema' \in IF StorageAdapter(redis, cql, cfg, index).state = "Open"
                       /\ StorageBranch(cfg) = "cassandra" /\ schema = NoSchema
                    THEN Schemas ELSE {schema}
    /\ UNCHANGED <<libs, stores, history, last, pc>>

keys(h) ==
    /\ IsOpen(h)
    /\ Record(h, "keys", NoKey, NoVal, KeysOut(h))
    /\ UNCHANGED <<libs, schema, config, created, handles, indexOf, stores, history, pc>>

set_val(h, key, val) ==
    /\ IsOpen(h)
    /\ mem' = IF Name(h) = "dict"
              THEN [mem EXCEPT ![h] = InMemoryStorage_set_val(mem[h], key, val)] ELSE mem
    /\ redisSrv' = IF Name(h) = "redis"
                   THEN [redisSrv EXCEPT ![Db(h)] =
                            RedisStorage_set_val(redisSrv[Db(h)], key, val)]
                   ELSE redisSrv
    /\ cassSrv' = IF Name(h) = "cassandra"
                  THEN CassandraStorage_set_val(schema, cassSrv, key, val) ELSE cassSrv
    /\ Record(h, "set_val", key, val, Ok(RetNone))
    /\ written' = [written EXCEPT ![h] = @ \cup {key}]
    /\ setKeys' = [setKeys EXCEPT ![h] = @ \cup {key}]
    /\ appended' = [appended EXCEPT ![h][key] = <<>>]
    /\ UNCHANGED <<libs, schema, config, created, handles, indexOf, pc>>

get_val(h, key) ==
    /\ IsOpen(h)
    /\ Record(h, "get_val", key, NoVal, GetValOut(h, key))
    /\ UNCHANGED <<libs, schema, config, created, handles, indexOf, stores, history, pc>>

\* append_val without the caller's bookkeeping
append_val_call(h, key, val) ==
    /\ IsOpen(h)
    /\ mem' = IF Name(h) = "dict"
              THEN [mem EXCEPT ![h] = InMemoryStorage_append_val(mem[h], key, val)] ELSE mem
    /\ redisSrv' = IF Name(h) = "redis"
                   THEN [redisSrv EXCEPT ![Db(h)] =
                            RedisStorage_append_val(redisSrv[Db(h)], key, val)]
                   ELSE redisSrv
    /\ cassSrv' = IF Name(h) = "cassandra"
                  THEN CassandraStorage_append_val(schema, cassSrv, key, val) ELSE cassSrv
    /\ Record(h, "append_val", key, val, AppendValOut(h, key, val))
    /\ IF AppendValOut(h, key, val).err = "none"
       THEN /\ written' = [written EXCEPT ![h] = @ \cup {key}]
            /\ appended' = [appended EXCEPT ![h][key] = Append(@, val)]
       ELSE UNCHANGED <<written, appended>>
    /\ UNCHANGED <<libs, schema, config, created, handles, indexOf, setKeys>>

append_val(h, key, val) ==
    /\ Len(appended[h][key]) < MaxLen
    /\ append_val_call(h, key, val)
    /\ UNCHANGED pc

\* get_list written as self.storage.setdefault(key, []) on the dict
get_list_setdefault(h, key) ==
    /\ IsOpen(h)
    /\ Record(h, "get_list", key, NoVal, GetListOut(h, key))
    /\ mem' = IF Name(h) = "dict" /\ mem[h][key].kind = "absent"
              THEN [mem EXCEPT ![h][key] = List(<<>>)] ELSE mem
    /\ UNCHANGED <<libs, schema, config, created, handles, indexOf, redisSrv, cassSrv,
                   history, pc>>

get_list(h, key) ==
    /\ IsOpen(h)
    /\ Record(h, "get_list", key, NoVal, GetListOut(h, key))
    /\ UNCHANGED <<libs, schema, config, created, handles, indexOf, stores, history, pc>>

\* one of the concurrent callers issues its single append_val on the key
\* they share
ConcKey == "h1"
CallerAppend(c, h, val) ==
    /\ pc[c] = "idle"
    /\ append_val_call(h, ConcKey, val)
    /\ pc' = [pc EXCEPT ![c] =
                IF AppendValOut(h, ConcKey, val).err = "none" THEN "returned" ELSE "raised"]

----------------------------------------------------------------------------
\* Specifications.

\* one handle, created by the factory with index MaxIndex from a configuration
\* naming one backend, in a deployment with both client libraries
Next ==
    \/ \E cfg \in OneBackendConfigs : storage(1, cfg, MaxIndex)
    \/ keys(1)
    \/ \E k \in Keys, v \in SetVals : set_val(1, k, v)
    \/ \E k \in Keys : get_val(1, k)
    \/ \E k \in Keys, v \in Vals : append_val(1, k, v)
    \/ \E k \in Keys : get_list(1, k)

Spec == Init /\ [][Next]_vars

\* the factory alone, on every configuration
NextFactory == \E h \in Slots, cfg \in Configs, i \in Indexes : storage(h, cfg, i)

SpecFactory == InitAny /\ [][NextFactory]_vars

\* two handles over one networked backend, created in slot order, working on
\* the keys SharedKeys
SharedKeys == {"h1"}
NextShared ==
    \/ \E h \in Slots, cfg \in NetworkConfigs, i \in Indexes :
            /\ \A g \in Slots : g < h => handles[g].state # "Uninitialized"
            /\ \A g \in Slots : IsOpen(g) => Name(g) = StorageBranch(cfg)
            /\ storage(h, cfg, i)
    \/ \E h \in Slots : keys(h)
    \/ \E h \in Slots, k \in SharedKeys, v \in SetVals : set_val(h, k, v)
    \/ \E h \in Slots, k \in SharedKeys : get_val(h, k)
    \/ \E h \in Slots, k \in SharedKeys, v \in Vals : append_val(h, k, v)
    \/ \E h \in Slots, k \in SharedKeys : get_list(h, k)

SpecShared == Init /\ [][NextShared]_vars

\* NCallers callers appending through one redis handle
NextConc ==
    \/ \E cfg \in RedisConfigs, i \in Indexes : storage(1, cfg, i)
    \/ \E c \in Callers, v \in Vals : CallerAppend(c, 1, v)
    \/ \E k \in Keys \ {ConcKey}, v \in SetVals : set_val(1, k, v)
    \/ \E k \in Keys : get_list(1, k)

SpecConc == Init /\ [][NextConc]_vars

\* an in-memory handle (slot 1) and a networked handle (slot 2) driven side
\* by side: each call is made on the in-memory handle, then the same call
\* with the same arguments on the networked one
DictConfigs == {c \in SingleConfigs : "dict" \in c.names}
NextPair ==
    \/ \E cfg \in DictConfigs : storage(1, cfg, MaxIndex)
    \/ \E cfg \in NetworkConfigs : IsOpen(1) /\ storage(2, cfg, MaxIndex)
    \/ /\ IsOpen(2) /\ last.h # 1
       /\ \/ keys(1)
          \/ \E k \in Keys, v \in SetVals : set_val(1, k, v)
          \/ \E k \in Keys : get_val(1, k)
          \/ \E k \in Keys, v \in Vals :
                Len(appended[2][k]) < MaxLen /\ append_val(1, k, v)
          \/ \E k \in Keys : get_list(1, k)
    \/ /\ last.h = 1
       /\ \/ last.op = "keys" /\ keys(2)
          \/ last.op = "set_val" /\ set_val(2, last.key, last.val)
          \/ last.op = "get_val" /\ get_val(2, last.key)
          \/ last.op = "append_val" /\ append_val(2, last.key, last.val)
          \/ last.op = "get_list" /\ get_list(2, last.key)

SpecPair == Init /\ [][NextPair]_vars

----------------------------------------------------------------------------
\* The form in which a backend hands back a value given to set_val, and
\* the form in which it holds a value given to append_val.

StoredForm(h, val) == IF Name(h) = "redis" THEN RedisEncode(val) ELSE val

AppendedForm(h, val) ==
    CASE Name(h) = "dict" -> val
      [] Name(h) = "redis" -> json_dumps(val)
      [] OTHER -> Pickle(val)

----------------------------------------------------------------------------
\* C1: on every backend, get_list of a key that no set_val or append_val
\* has written returns the empty list and raises nothing, whatever was done
\* to other keys.
C1_GetListNeverWritten ==
    /\ \A h \in Slots, k \in Keys :
          IsOpen(h) /\ k \notin written[h] => GetListOut(h, k) = Ok(RetList(<<>>))
    /\ last.op = "get_list" /\ last.key \notin written[last.h]
          => last.err = "none" /\ last.ret = RetList(<<>>)

C1_Witness ==
    /\ Name(1) = "redis"
    /\ last.op = "get_list" /\ last.key = "h2"
    /\ written[1] = {"h1"}
    /\ last.ret = RetList(<<>>)

\* C2: on the in-memory backend, for a key only ever written by append_val,
\* get_list gives exactly the values appended, in call order, and keys()
\* includes the key.
C2_AppendOrder ==
    /\ \A h \in Slots, k \in Keys :
          IsOpen(h) /\ Name(h) = "dict" /\ k \notin setKeys[h]
             => /\ InMemoryStorage_get_list(mem[h], k) = Ok(RetList(appended[h][k]))
                /\ appended[h][k] # <<>> => k \in InMemoryStorage_keys(mem[h]).ret.keys
    /\ last.op = "get_list" /\ Name(last.h) = "dict" /\ last.key \notin setKeys[last.h]
          => last.ret = RetList(appended[last.h][last.key])

C2_Witness ==
    /\ Name(1) = "dict"
    /\ last.op = "get_list" /\ last.key = "h1"
    /\ last.ret.items = <<[type |-> "str", v |-> 1], [type |-> "int", v |-> 1]>>
    /\ "h1" \in InMemoryStorage_keys(mem[1]).ret.keys

\* C3: on each backend, every append_val on an Open handle completes without
\* error and get_list afterwards contains every value appended to the key
\* (stated for keys never given to set_val and payloads the backend's
\* encoding accepts).
C3_NoLostAppends ==
    last.op = "append_val" /\ last.key \notin setKeys[last.h]
        /\ (Name(last.h) = "cassandra" => Picklable(last.val))
    => /\ last.err = "none"
       /\ GetListOut(last.h, last.key).err = "none"
       /\ \A i \in 1..Len(appended[last.h][last.key]) :
             AppendedForm(last.h, appended[last.h][last.key][i])
                \in Range(GetListOut(last.h, last.key).ret.items)

\* C4: on the in-memory and remote-kv backends, get_val right after
\* set_val(k, v) returns v in the backend's stored form, whatever came before.
C4_RoundTrip ==
    last.op = "set_val" /\ Name(last.h) \in {"dict", "redis"}
    => GetValOut(last.h, last.key) = Ok(RetVal(StoredForm(last.h, last.val)))

C4_Witness ==
    /\ Name(1) = "dict"
    /\ last.op = "set_val" /\ last.key = "h1"
    /\ mem[1]["h2"].kind = "list"

\* C5: storage() raises the configuration error and constructs no adapter
\* whenever the configuration does not name exactly one recognized backend
\* or names an unrecognized one.
C5_FactoryRejects ==
    created.called
        /\ (Cardinality(created.given.names \cap BackendNames) # 1
            \/ created.given.names \ BackendNames # {})
    => created.err = "ValueError" /\ created.slot = 0

\* C6: for a remote-kv or column-store configuration the sub-map's db is the
\* index and the client constructor receives db equal to it; an in-memory
\* configuration is left unchanged.
C6_DbInjected ==
    created.called /\ created.slot # 0
    => LET b == StorageBranch(created.given)
           a == handles[created.slot]
       IN /\ b = "dict" => config = created.given
          /\ b = "redis" => /\ config.redis.db = <<created.index>>
                            /\ a.state = "Open"
                                  => "db" \in a.args /\ a.db = <<created.index>>
          /\ b = "cassandra" => /\ config.cassandra.db = <<created.index>>
                                /\ a.state = "Open"
                                      => "db" \in a.args /\ a.db = <<created.index>>

\* C7: once each of the NCallers callers has issued its append_val on the
\* shared key of one remote-kv store, get_list of the key has exactly
\* NCallers entries.
C7_AllAppendsLand ==
    (\A c \in Callers : pc[c] # "idle")
    => /\ \A c \in Callers : pc[c] = "returned"
       /\ GetListOut(1, ConcKey).err = "none"
       /\ Len(GetListOut(1, ConcKey).ret.items) = NCallers

\* C8: two handles created with different indexes over one networked
\* backend are isolated: a key written through one only is not returned by
\* keys, get_val or get_list of the other.
C8_Isolated ==
    \A h \in Slots, g \in Slots :
        IsOpen(h) /\ IsOpen(g) /\ indexOf[h] # indexOf[g]
        => \A k \in written[h] \ written[g] :
              /\ k \notin KeysOut(g).ret.keys
              /\ GetValOut(g, k).ret.kind = "None"
              /\ GetListOut(g, k).ret.items = <<>>

\* C9: a column-store handle whose configuration lacks the keyspace, or names
\* one that cannot be selected, fails during construction: it is never Open
\* and no operation is ever executed on it.
C9_KeyspaceFailFast ==
    created.called /\ StorageBranch(created.given) = "cassandra"
        /\ (created.given.cassandra.keyspace = <<>>
            \/ created.given.cassandra.keyspace[1] \notin Keyspaces)
    => /\ handles[created.slot].state = "Failed"
       /\ handles[created.slot].err \in {"KeyError", "ProgrammingError"}
       /\ last = NoCall

C9_Witness ==
    /\ created.called
    /\ created.given.cassandra.keyspace = <<>>
    /\ handles[1].name = "cassandra" /\ handles[1].err = "KeyError"

\* C10: on an in-memory handle keys() returns exactly the keys written by
\* set_val or append_val on that handle.
C10_KeysExact ==
    /\ \A h \in Slots :
          IsOpen(h) /\ Name(h) = "dict" => InMemoryStorage_keys(mem[h]) = Ok(RetKeys(written[h]))
    /\ last.op = "keys" /\ Name(last.h) = "dict" => last.ret.keys = written[last.h]

C10_Witness ==
    /\ Name(1) = "dict"
    /\ last.op = "keys"
    /\ last.ret.keys = {"h2"}

\* s is a prefix of t
IsPrefix(s, t) == Len(s) <= Len(t) /\ SubSeq(t, 1, Len(s)) = s

\* C11 as stated: on an in-memory handle, over any operation (set_val
\* included), once get_list of a key gives a list L it gives a list with
\* prefix L after every later step.
C11_AppendOnly ==
    [][\A h \in Slots, k \in Keys :
          IsOpen(h) /\ Name(h) = "dict"
              /\ InMemoryStorage_get_list(mem[h], k).ret.kind = "list"
          => /\ InMemoryStorage_get_list(mem'[h], k).ret.kind = "list"
             /\ IsPrefix(InMemoryStorage_get_list(mem[h], k).ret.items,
                         InMemoryStorage_get_list(mem'[h], k).ret.items)]_vars

\* C11 amended: on an in-memory handle, once get_list of a key gives a list
\* L it gives a list with prefix L after every later step other than a
\* set_val on that key; a set_val on that key leaves the scalar in its place.
C11_AppendOnlyUnlessSet ==
    [][\A h \in Slots, k \in Keys :
          IsOpen(h) /\ Name(h) = "dict"
              /\ InMemoryStorage_get_list(mem[h], k).ret.kind = "list"
          => IF last'.op = "set_val" /\ last'.h = h /\ last'.key = k
             THEN InMemoryStorage_get_list(mem'[h], k) = Ok(RetVal(last'.val))
             ELSE /\ InMemoryStorage_get_list(mem'[h], k).ret.kind = "list"
                  /\ IsPrefix(InMemoryStorage_get_list(mem[h], k).ret.items,
                              InMemoryStorage_get_list(mem'[h], k).ret.items)]_vars

C11_Witness ==
    /\ Name(1) = "dict"
    /\ last.op = "get_list" /\ last.key = "h1"
    /\ Len(last.ret.items) = MaxLen
    /\ setKeys[1] = {"h2"}

\* C12: on every backend, get_val right after set_val(k, v2) yields v2 in
\* the backend's stored form (as the value, or as the one column of the one
\* row selected), whatever set_val(k, v1) came before.
C12_LastWriteWins ==
    last.op = "set_val"
    => /\ GetValOut(last.h, last.key).err = "none"
       /\ GetValOut(last.h, last.key).ret.kind \in {"val", "row"}
       /\ GetValOut(last.h, last.key).ret.val = StoredForm(last.h, last.val)

\* Two outcomes are the same up to value encoding: both raise or neither
\* does, and the values returned are of the same shape (nothing, one value,
\* a list, keys) and carry the same payloads and keys.
RetClass(r) ==
    CASE r.kind \in {"val", "row"} -> "value"
      [] r.kind \in {"keys", "rows"} -> "keys"
      [] OTHER -> r.kind
SameOutcome(a, b) ==
    /\ (a.err = "none") = (b.err = "none")
    /\ a.err = "none" /\ b.err = "none"
          => /\ RetClass(a.ret) = RetClass(b.ret)
             /\ a.ret.val.v = b.ret.val.v
             /\ Len(a.ret.items) = Len(b.ret.items)
             /\ \A i \in 1..Len(a.ret.items) : a.ret.items[i].v = b.ret.items[i].v
             /\ a.ret.keys = b.ret.keys

\* C13: when the same calls are made side by side on an in-memory handle and
\* on a remote-kv or column-store handle, each call made on the networked
\* handle has the same outcome, up to value encoding, as that call had on
\* the in-memory handle just before.
C13_MatchesReference ==
    [][last.h = 1 /\ last'.h = 2 => SameOutcome(last, last')]_vars

\* C14: when storage() takes the remote-kv branch without the redis library,
\* or the column-store branch without the cql library, the constructor
\* raises ImportError before it calls any client constructor: the handle is
\* Failed with no client, and no handle of a backend whose library is
\* missing is ever Open.
C14_MissingLibraryFailFast ==
    /\ created.called
          /\ \/ StorageBranch(created.given) = "redis" /\ ~redis
             \/ StorageBranch(created.given) = "cassandra" /\ ~cql
       => /\ created.err = "ImportError"
          /\ handles[created.slot].state = "Failed"
          /\ handles[created.slot].client = "none"
          /\ handles[created.slot].err = "ImportError"
    /\ \A h \in Slots :
          /\ handles[h].err = "ImportError"
                => handles[h].state = "Failed" /\ handles[h].client = "none"
          /\ IsOpen(h) /\ Name(h) = "redis" => redis
          /\ IsOpen(h) /\ Name(h) = "cassandra" => cql

C14_Witness ==
    /\ ~redis /\ cql
    /\ created.called /\ StorageBranch(created.given) = "redis"
    /\ handles[created.slot].err = "ImportError"
    /\ \E h \in Slots : IsOpen(h) /\ Name(h) = "cassandra"

\* C15: a keys, get_val or get_list call on an in-memory handle, raising or
\* not, leaves the dict as it was, so keys() gives the same before and
\* after; get_list of an absent key returns the empty list and the key stays
\* absent.
ReadOps == {"keys", "get_val", "get_list"}
C15_ReadsKeepMapping ==
    [][last'.op \in ReadOps /\ Name(last'.h) = "dict"
       => /\ mem' = mem
          /\ InMemoryStorage_keys(mem'[last'.h]) = InMemoryStorage_keys(mem[last'.h])
          /\ last'.op = "get_list" /\ mem[last'.h][last'.key].kind = "absent"
                => /\ last'.err = "none" /\ last'.ret = RetList(<<>>)
                   /\ last'.key \notin InMemoryStorage_keys(mem'[last'.h]).ret.keys]_vars

C15_Witness ==
    /\ Name(1) = "dict"
    /\ last.op = "get_list" /\ last.key = "h2" /\ last.ret = RetList(<<>>)
    /\ mem[1]["h2"].kind = "absent"
    /\ mem[1]["h1"].kind = "list"

\* C16: in the in-memory adapter get_val and get_list of a present key read
\* the same single entry; set_val(k, v) leaves the scalar v alone at k,
\* whatever list k held, and touches no other key; append_val on a key that
\* holds a scalar raises and leaves the whole dict as it was.
C16_ScalarOrList ==
    [][last'.op \in {"set_val", "append_val"} /\ Name(last'.h) = "dict"
       => LET h == last'.h
              k == last'.key
          IN /\ \A j \in InMemoryStorage_keys(mem'[h]).ret.keys :
                   InMemoryStorage_get_val(mem'[h], j) = InMemoryStorage_get_list(mem'[h], j)
             /\ last'.op = "set_val"
                   => /\ InMemoryStorage_get_val(mem'[h], k) = Ok(RetVal(last'.val))
                      /\ InMemoryStorage_get_list(mem'[h], k) = Ok(RetVal(last'.val))
                      /\ \A j \in Keys \ {k} : mem'[h][j] = mem[h][j]
             /\ last'.op = "append_val"
                      /\ InMemoryStorage_get_val(mem[h], k).ret.kind = "val"
                   => /\ last'.err = "AttributeError"
                      /\ mem' = mem]_vars

C16_Witness ==
    /\ Name(1) = "dict"
    /\ last.op = "append_val" /\ last.key = "h1" /\ last.err = "AttributeError"
    /\ InMemoryStorage_get_val(mem[1], "h1").ret.kind = "val"
    /\ InMemoryStorage_get_list(mem[1], "h2").ret.items # <<>>

====
